---- MODULE Spec2Model ----
(***************************************************************************)
(* Model of backend/server.py: the config loader load_server_config, the   *)
(* module-level config it initialises, the AI adapter handleAIRequest and   *)
(* the POST /postPacket handler handlePacket.                               *)
(*                                                                         *)
(* Text is a sequence of string tokens.  Whitespace characters and ":" are  *)
(* tokens of their own, so that strip() and split(":", 1) are computed on   *)
(* the text; a word that the code only compares or copies as a whole (a key *)
(* name, an address, a literal piece of the prompt) is one token.           *)
(*                                                                         *)
(* The bootstrap of lines 47-55 (Flask, JWT, SocketIO, the provider        *)
(* client) is taken to have run: the model goes from line 45 to a server   *)
(* that dispatches POST /postPacket to handlePacket, runs the coroutine to  *)
(* its end and answers 500 when it raises.  Request bodies are JSON         *)
(* objects.                                                                 *)
(***************************************************************************)
EXTENDS Integers, Sequences, FiniteSets, TLC

\* ---------------------------------------------------------------- bounds
\* Longest config file, in lines.
MaxLines == 2
\* Number of successive calls of load_server_config on the same file.
MaxLoads == 2
\* Number of requests the server handles (concurrently).
NumReq == 2

\* ------------------------------------------------------------------ text
Spaces == {" ", "\t", "\n"}

RECURSIVE LStrip(_)
LStrip(s) ==
    IF s # <<>> /\ Head(s) \in Spaces THEN LStrip(Tail(s)) ELSE s

RECURSIVE RStrip(_)
RStrip(s) ==
    IF s # <<>> /\ s[Len(s)] \in Spaces
    THEN RStrip(SubSeq(s, 1, Len(s) - 1))
    ELSE s

\* str.strip()
Strip(s) == RStrip(LStrip(s))

\* ":" in line
HasColon(s) == \E i \in 1..Len(s) : s[i] = ":"

FirstColon(s) == CHOOSE i \in 1..Len(s) : s[i] = ":" /\ \A j \in 1..(i - 1) : s[j] # ":"

\* s.split(":", 1) for a text that holds a colon: <<before, after>>
SplitFirstColon(s) ==
    <<SubSeq(s, 1, FirstColon(s) - 1), SubSeq(s, FirstColon(s) + 1, Len(s))>>

\* ---------------------------------------------------------- config loader
Keys == {"backend_ip", "port", "X-Auth-Token"}

\* line 24: the dict load_server_config starts from
DefaultConfig ==
    [k \in Keys |-> CASE k = "backend_ip" -> <<"192.168.1.1">>
                      [] k = "port" -> <<"3107">>
                      [] OTHER -> <<"default">>]

\* The module-level name config before line 45 has run.
NotLoaded == [k \in Keys |-> <<>>]

\* A copy-and-paste slip in the elif chain: the port branch writes backend_ip.
ProcessLineWrongField(c, line) ==
    IF HasColon(line)
    THEN LET kv == SplitFirstColon(Strip(line))
             key == kv[1]
             value == kv[2]
         IN  IF key = <<"backend_ip">> THEN [c EXCEPT !["backend_ip"] = Strip(value)]
             ELSE IF key = <<"port">> THEN [c EXCEPT !["backend_ip"] = Strip(value)]
             ELSE IF key = <<"X-Auth-Token">> THEN [c EXCEPT !["X-Auth-Token"] = Strip(value)]
             ELSE c
    ELSE c

\* lines 32-39: the body of the loop over the file's lines
ProcessLine(c, line) ==
    IF HasColon(line)
    THEN LET kv == SplitFirstColon(Strip(line))
             key == kv[1]
             value == kv[2]
         IN  IF key = <<"backend_ip">> THEN [c EXCEPT !["backend_ip"] = Strip(value)]
             ELSE IF key = <<"port">> THEN [c EXCEPT !["port"] = Strip(value)]
             ELSE IF key = <<"X-Auth-Token">> THEN [c EXCEPT !["X-Auth-Token"] = Strip(value)]
             ELSE c
    ELSE c

\* The file handle kept from the previous call instead of a new open().
OpenPosStale(prev) == prev

\* line 30: open() gives a handle positioned on the first line
OpenPos(prev) == 1

\* Lines a config file is made of.
Lines ==
    { <<"backend_ip", ":", " ", "10.0.0.5", "\n">>,
      <<" ", "backend_ip", ":", "10.0.0.7">>,
      <<"backend_ip", " ", ":", " ", "10.0.0.9", "\n">>,
      <<"port", ":", " ", "8080", " ", "\n">>,
      <<"X-Auth-Token", ":", " ", "a", ":", "b", "\n">>,
      <<"timeout", ":", " ", "30", "\n">>,
      <<"backend_ip", " ", "10.0.0.5", "\n">>,
      <<"\n">> }

LineSeqs == UNION { [1..n -> Lines] : n \in 0..MaxLines }

\* backendcfg.txt: absent, or a sequence of lines.  bad = 0: open() raises;
\* bad = k in 1..Len(lines): reading line k raises (an undecodable byte, an
\* I/O error) after lines 1..k-1 were read; bad = Len(lines) + 1: the file
\* reads to its end.
AbsentFile == [exists |-> FALSE, lines |-> <<>>, bad |-> 1]

Files ==
    {AbsentFile} \cup
    UNION { { [exists |-> TRUE, lines |-> ls, bad |-> b] : b \in 0..(Len(ls) + 1) } :
            ls \in LineSeqs }

\* The files the server is started on.
StartupFiles ==
    { AbsentFile,
      [exists |-> TRUE, lines |-> << <<"backend_ip", ":", " ", "10.0.0.5", "\n">> >>, bad |-> 2],
      [exists |-> TRUE,
       lines |-> << <<"port", ":", " ", "8080", " ", "\n">>, <<"\n">> >>, bad |-> 2] }

\* --------------------------------------------------------- request values
\* A JSON value of a request field, as request.get_json() gives it: an int, a
\* str (a sequence of characters), None (JSON null); "absent" marks a key the
\* object does not hold.
IntV(n) == [t |-> "int", n |-> n, s |-> <<>>]
StrV(s) == [t |-> "str", n |-> 0, s |-> s]
None == [t |-> "none", n |-> 0, s |-> <<>>]
Absent == [t |-> "absent", n |-> 0, s |-> <<>>]

Fields == <<"packet_size", "packet_rate", "protocol_type", "connection_state",
            "payload_pattern">>
FieldSet == {Fields[i] : i \in 1..Len(Fields)}

\* lines 66-70: data.get(k), None for a key the object does not hold
Get(d, k) == IF d[k].t = "absent" THEN None ELSE d[k]

\* A presence test (is not None) in place of the truth test.
TruthyNotNone(v) == v.t # "none"

\* line 71: the truth value `not x` negates
Truthy(v) ==
    CASE v.t = "int" -> v.n # 0
      [] v.t = "str" -> v.s # <<>>
      [] OTHER -> FALSE

\* The rejection taken only when every field is falsy (and for or).
AllTruthyAnyOne(d) == \E i \in 1..Len(Fields) : Truthy(Get(d, Fields[i]))

\* line 71: the condition under which the handler goes on to the AI call
AllTruthy(d) == \A i \in 1..Len(Fields) : Truthy(Get(d, Fields[i]))

DigitChar == <<"0", "1", "2", "3", "4", "5", "6", "7", "8", "9">>

RECURSIVE Decimal(_)
Decimal(n) ==
    IF n < 10 THEN <<DigitChar[n + 1]>>
    ELSE Decimal(n \div 10) \o <<DigitChar[(n % 10) + 1]>>

\* line 74: what an f-string replacement field {v} puts in the text
Format(v) ==
    CASE v.t = "int" -> Decimal(v.n)
      [] v.t = "str" -> v.s
      [] OTHER -> <<"None">>

\* The f-string with two replacement fields exchanged.
PromptSwapped(d) ==
    <<"REQUEST CHECK: packet_size = ">> \o Format(Get(d, "packet_rate")) \o
    <<", packet_rate = ">> \o Format(Get(d, "packet_size")) \o
    <<", protocol_type = ">> \o Format(Get(d, "protocol_type")) \o
    <<", connection_state = ">> \o Format(Get(d, "connection_state")) \o
    <<", payload_pattern = ">> \o Format(Get(d, "payload_pattern"))

\* line 74: aireq
Prompt(d) ==
    <<"REQUEST CHECK: packet_size = ">> \o Format(Get(d, "packet_size")) \o
    <<", packet_rate = ">> \o Format(Get(d, "packet_rate")) \o
    <<", protocol_type = ">> \o Format(Get(d, "protocol_type")) \o
    <<", connection_state = ">> \o Format(Get(d, "connection_state")) \o
    <<", payload_pattern = ">> \o Format(Get(d, "payload_pattern"))

\* ------------------------------------------------------------- responses
\* An HTTP response: its status code and, for a JSON body, the envelope.
Json(status, message) == [code |-> 200, status |-> status, message |-> message]

\* line 72
ErrorEnvelope ==
    Json("error", "Error while handling request! Please check your request.")

\* line 76
SuccessEnvelope(text) == Json("sucess", text)

\* What the framework answers when the view function raises.
ServerError == [code |-> 500, status |-> "", message |-> ""]

\* What the AI adapter call gave: nothing yet, a text, or a provider error.
NoResult == [kind |-> "none", text |-> ""]
TextResult(t) == [kind |-> "text", text |-> t]
RaiseResult == [kind |-> "raise", text |-> ""]

\* line 75: whether `await` accepts the value handleAIRequest returned.
\* handleAIRequest is a plain function returning response.text, a str.
Awaitable(res) == res.kind = "coroutine"

\* A provider error caught and answered with the error envelope.
HandlerOutcomeCaught(res) ==
    IF res.kind = "raise" THEN ErrorEnvelope
    ELSE IF Awaitable(res) THEN SuccessEnvelope(res.text)
    ELSE ServerError

\* lines 75-76: the response once the adapter call has ended.  Nothing
\* catches an exception: one raised in handleAIRequest (lines 58-60) or by
\* the await of line 75 leaves the view function.
HandlerOutcome(res) ==
    IF res.kind = "raise" THEN ServerError
    ELSE IF Awaitable(res) THEN SuccessEnvelope(res.text)
    ELSE ServerError

\* One module-level set of names shared by all requests.
FrameShared(r) == 1

\* lines 65-75: data, the field values and aireq are locals of the call of
\* handlePacket that serves request r
Frame(r) == r

\* --------------------------------------------------------------- inputs
Base ==
    [k \in FieldSet |->
        CASE k = "packet_size" -> IntV(100)
          [] k = "packet_rate" -> IntV(5)
          [] k = "protocol_type" -> StrV(<<"T", "C", "P">>)
          [] k = "connection_state" -> StrV(<<"U", "P">>)
          [] OTHER -> StrV(<<"x", " ", "y">>)]

BaseText ==
    [Base EXCEPT !["packet_size"] = StrV(<<"6", "4">>), !["packet_rate"] = StrV(<<"0">>)]

BaseOdd ==
    [k \in FieldSet |->
        CASE k = "packet_size" -> IntV(1500)
          [] k = "packet_rate" -> StrV(<<"1", ".", "5">>)
          [] k = "protocol_type" -> StrV(<<"U", "D", "P">>)
          [] k = "connection_state" -> StrV(<<"S", ",", " ", "A">>)
          [] OTHER -> IntV(7)]

Falsy == {Absent, None, IntV(0), StrV(<<>>)}

\* Request bodies (JSON objects): three complete ones, every one made from Base
\* by making one field absent or falsy, one with two fields absent and the
\* empty object.
Bodies ==
    {Base, BaseText, BaseOdd} \cup
    { [Base EXCEPT ![k] = v] : k \in FieldSet, v \in Falsy } \cup
    { [Base EXCEPT !["connection_state"] = Absent, !["payload_pattern"] = Absent],
      [k \in FieldSet |-> Absent] }

\* Completion texts of the provider.
Texts == {"benign", "malicious"}

Reqs == 1..NumReq

\* ---------------------------------------------------------------- state
VARIABLES
    file,      \* backendcfg.txt
    lpc,       \* where load_server_config is: idle, open, loop, ret; serving
    cfg,       \* load_server_config's local config
    pos,       \* index of the next line the file handle yields
    raised,    \* whether the current call went through the except clause
    results,   \* the values successive calls of load_server_config returned
    config,    \* the module-level config (line 45)
    pc,        \* per request: idle, recvd, call, wait, done
    body,      \* per request: the JSON object it carries
    data,      \* per frame: data of line 65
    aireq,     \* per frame: aireq of line 74
    sent,      \* per request: the contents the adapter was called with
    calls,     \* per request: number of calls of handleAIRequest
    result,    \* per request: what the adapter call gave
    response,  \* per request: the HTTP response
    afterFail  \* per request: received after some request failed in the adapter

loaderVars == <<file, lpc, cfg, pos, raised, results>>
reqVars == <<pc, body, data, aireq, sent, calls, result, response, afterFail>>
vars == <<file, lpc, cfg, pos, raised, results, config,
          pc, body, data, aireq, sent, calls, result, response, afterFail>>

NoBody == [k \in FieldSet |-> Absent]
NoResponse == [code |-> 0, status |-> "", message |-> ""]

InitCommon ==
    /\ lpc = "idle"
    /\ cfg = DefaultConfig
    /\ pos = 1
    /\ raised = FALSE
    /\ results = <<>>
    /\ config = NotLoaded
    /\ pc = [r \in Reqs |-> "idle"]
    /\ body = [r \in Reqs |-> NoBody]
    /\ data = [r \in Reqs |-> NoBody]
    /\ aireq = [r \in Reqs |-> <<>>]
    /\ sent = [r \in Reqs |-> <<>>]
    /\ calls = [r \in Reqs |-> 0]
    /\ result = [r \in Reqs |-> NoResult]
    /\ response = [r \in Reqs |-> NoResponse]
    /\ afterFail = [r \in Reqs |-> FALSE]

\* The server process: started on one of StartupFiles.
Init == file \in StartupFiles /\ InitCommon

\* load_server_config alone, on any file.
InitLoad == file \in Files /\ InitCommon

\* ------------------------------------------------- load_server_config
\* lines 23-29: the call; the fresh dict; the early return for an absent file
LoadCall ==
    /\ lpc = "idle"
    /\ Len(results) < MaxLoads
    /\ cfg' = DefaultConfig
    /\ raised' = FALSE
    /\ lpc' = IF file.exists THEN "open" ELSE "ret"
    /\ UNCHANGED <<file, pos, results, config>>
    /\ UNCHANGED reqVars

\* line 30: open() succeeds
OpenFile ==
    /\ lpc = "open"
    /\ file.bad # 0
    /\ pos' = OpenPos(pos)
    /\ lpc' = "loop"
    /\ UNCHANGED <<file, cfg, raised, results, config>>
    /\ UNCHANGED reqVars

\* lines 31-40: one turn of the loop; at the end of the file the info line is
\* logged (a formatting error in a log call is reported by the logging
\* module, not raised) and control reaches line 43
ReadLine ==
    /\ lpc = "loop"
    /\ ~(pos <= Len(file.lines) /\ file.bad = pos)
    /\ IF pos <= Len(file.lines)
       THEN /\ cfg' = ProcessLine(cfg, file.lines[pos])
            /\ pos' = pos + 1
            /\ lpc' = "loop"
       ELSE /\ lpc' = "ret"
            /\ UNCHANGED <<cfg, pos>>
    /\ UNCHANGED <<file, raised, results, config>>
    /\ UNCHANGED reqVars

\* lines 41-42: open() or the read of the next line raises; the except clause
\* logs the error and control reaches line 43 with config as it is
ReadError ==
    /\ \/ lpc = "open" /\ file.bad = 0
       \/ lpc = "loop" /\ file.bad = pos /\ pos <= Len(file.lines)
    /\ raised' = TRUE
    /\ lpc' = "ret"
    /\ UNCHANGED <<file, cfg, pos, results, config>>
    /\ UNCHANGED reqVars

\* line 43 seen from a caller that calls again: the returned value is kept
Collect ==
    /\ lpc = "ret"
    /\ results' = Append(results, cfg)
    /\ lpc' = "idle"
    /\ UNCHANGED <<file, cfg, pos, raised, config>>
    /\ UNCHANGED reqVars

\* lines 43-45: the returned value becomes the module-level config and the
\* server starts serving
Startup ==
    /\ lpc = "ret"
    /\ config' = cfg
    /\ lpc' = "serving"
    /\ UNCHANGED <<file, cfg, pos, raised, results>>
    /\ UNCHANGED reqVars

\* ------------------------------------------------------- handlePacket
\* line 65: a request arrives and its JSON object is bound to data.  Requests
\* are numbered in the order they arrive.
Receive(r, b) ==
    /\ lpc = "serving"
    /\ pc[r] = "idle"
    /\ \A q \in Reqs : q < r => pc[q] # "idle"
    /\ body' = [body EXCEPT ![r] = b]
    /\ data' = [data EXCEPT ![Frame(r)] = b]
    /\ afterFail' = [afterFail EXCEPT ![r] =
                        \E q \in Reqs : pc[q] = "done" /\ result[q].kind = "raise"]
    /\ pc' = [pc EXCEPT ![r] = "recvd"]
    /\ UNCHANGED <<aireq, sent, calls, result, response, config>>
    /\ UNCHANGED loaderVars

\* lines 66-74: the five fields are read and tested; a request with a falsy
\* field is answered at once, any other gets its prompt built
Validate(r) ==
    /\ lpc = "serving"
    /\ pc[r] = "recvd"
    /\ IF AllTruthy(data[Frame(r)])
       THEN /\ aireq' = [aireq EXCEPT ![Frame(r)] = Prompt(data[Frame(r)])]
            /\ pc' = [pc EXCEPT ![r] = "call"]
            /\ UNCHANGED response
       ELSE /\ response' = [response EXCEPT ![r] = ErrorEnvelope]
            /\ pc' = [pc EXCEPT ![r] = "done"]
            /\ UNCHANGED aireq
    /\ UNCHANGED <<body, data, sent, calls, result, afterFail, config>>
    /\ UNCHANGED loaderVars

\* line 75 to lines 57-60: handleAIRequest is called with aireq and sends it
\* to the provider
AdapterCall(r) ==
    /\ lpc = "serving"
    /\ pc[r] = "call"
    /\ calls' = [calls EXCEPT ![r] = @ + 1]
    /\ sent' = [sent EXCEPT ![r] = aireq[Frame(r)]]
    /\ pc' = [pc EXCEPT ![r] = "wait"]
    /\ UNCHANGED <<body, data, aireq, result, response, afterFail, config>>
    /\ UNCHANGED loaderVars

\* lines 60-61, 75-76: the provider answers with a text, handleAIRequest
\* returns it and the handler goes on from the call
AdapterReturn(r, t) ==
    /\ lpc = "serving"
    /\ pc[r] = "wait"
    /\ result' = [result EXCEPT ![r] = TextResult(t)]
    /\ response' = [response EXCEPT ![r] = HandlerOutcome(TextResult(t))]
    /\ pc' = [pc EXCEPT ![r] = "done"]
    /\ UNCHANGED <<body, data, aireq, sent, calls, afterFail, config>>
    /\ UNCHANGED loaderVars

\* lines 58-60, 75: the provider call raises
AdapterRaise(r) ==
    /\ lpc = "serving"
    /\ pc[r] = "wait"
    /\ result' = [result EXCEPT ![r] = RaiseResult]
    /\ response' = [response EXCEPT ![r] = HandlerOutcome(RaiseResult)]
    /\ pc' = [pc EXCEPT ![r] = "done"]
    /\ UNCHANGED <<body, data, aireq, sent, calls, afterFail, config>>
    /\ UNCHANGED loaderVars

\* ------------------------------------------------------- specifications
Next ==
    \/ LoadCall
    \/ OpenFile
    \/ ReadLine
    \/ ReadError
    \/ Startup
    \/ \E r \in Reqs, b \in Bodies : Receive(r, b)
    \/ \E r \in Reqs : Validate(r)
    \/ \E r \in Reqs : AdapterCall(r)
    \/ \E r \in Reqs, t \in Texts : AdapterReturn(r, t)
    \/ \E r \in Reqs : AdapterRaise(r)

Spec == Init /\ [][Next]_vars

NextLoad ==
    \/ LoadCall
    \/ OpenFile
    \/ ReadLine
    \/ ReadError
    \/ Collect

SpecLoad == InitLoad /\ [][NextLoad]_vars

\* ---------------------------------------------------------------- claims
\* The text a JSON value stands for in a request: a string's characters, a
\* number's decimal numeral.
Shown(v) ==
    IF v.t = "str" THEN v.s
    ELSE CASE v.n = 5 -> <<"5">>
           [] v.n = 7 -> <<"7">>
           [] v.n = 100 -> <<"1", "0", "0">>
           [] v.n = 1500 -> <<"1", "5", "0", "0">>

\* A request body with a field missing, null, zero or empty.
SomeFieldFalsy(b) == \E k \in FieldSet : b[k] \in Falsy

\* Some step of request q.
ReqStep(q) ==
    \/ \E b \in Bodies : Receive(q, b)
    \/ Validate(q)
    \/ AdapterCall(q)
    \/ \E t \in Texts : AdapterReturn(q, t)
    \/ AdapterRaise(q)

\* C1: a request with at least one of the five fields missing or falsy is
\* answered with exactly the validation-error envelope, and handleAIRequest
\* is never called for it.
C1_ValidationError ==
    \A r \in Reqs :
        (pc[r] # "idle" /\ SomeFieldFalsy(body[r])) =>
            /\ pc[r] \in {"recvd", "done"}
            /\ calls[r] = 0
            /\ sent[r] = <<>>
            /\ result[r] = NoResult
            /\ pc[r] = "done" =>
                  response[r] =
                      [code |-> 200, status |-> "error",
                       message |-> "Error while handling request! Please check your request."]

C1_Witness ==
    \E r \in Reqs :
        /\ pc[r] = "done"
        /\ body[r]["packet_rate"] = IntV(0)
        /\ response[r].status = "error"
        /\ calls[r] = 0

\* C2: for a request with all five fields truthy, once the adapter has
\* returned a text the response is the envelope with status "success" and
\* the adapter's text as message.
C2_SuccessEnvelope ==
    \A r \in Reqs :
        (pc[r] = "done" /\ result[r].kind = "text") =>
            /\ response[r].status = "success"
            /\ response[r].message = result[r].text

\* C3: for a request with all five fields truthy, the string passed to the
\* adapter is the literal template with the request's own five values in
\* order.
C3_PromptTemplate ==
    \A r \in Reqs :
        (pc[r] \in {"wait", "done"} /\ ~SomeFieldFalsy(body[r])) =>
            sent[r] =
                <<"REQUEST CHECK: packet_size = ">> \o Shown(body[r]["packet_size"]) \o
                <<", packet_rate = ">> \o Shown(body[r]["packet_rate"]) \o
                <<", protocol_type = ">> \o Shown(body[r]["protocol_type"]) \o
                <<", connection_state = ">> \o Shown(body[r]["connection_state"]) \o
                <<", payload_pattern = ">> \o Shown(body[r]["payload_pattern"])

C3_Witness ==
    \E r \in Reqs :
        /\ pc[r] = "wait"
        /\ body[r] = BaseOdd
        /\ Len(sent[r]) > Len(Fields)

\* C4: when the adapter call raises a provider error, the request ends in a
\* server-side failure (no success envelope, no validation-error envelope)
\* and the server goes on serving the other requests.
C4_ProviderFailure ==
    \A r \in Reqs :
        result[r].kind = "raise" =>
            /\ pc[r] = "done"
            /\ response[r].code >= 500
            /\ response[r].status \notin {"success", "sucess", "error"}
            /\ (\E q \in Reqs : pc[q] # "done") => ENABLED (\E q \in Reqs : ReqStep(q))

C4_Witness ==
    \E r, q \in Reqs :
        /\ result[r].kind = "raise"
        /\ pc[q] = "done"
        /\ afterFail[q]
        /\ response[q].code = 200

\* C5: if an exception occurs while load_server_config reads the file, even
\* after some recognized lines were processed, the call returns exactly the
\* default configuration.
C5_DefaultOnException ==
    (lpc = "ret" /\ raised) => cfg = DefaultConfig

\* C6: for a line holding a colon, the text before the first colon, trimmed,
\* is the key and the text after it, trimmed, the value; when the trimmed key
\* is a recognized name the loader sets that field to the trimmed value.
C6_TrimmedKeyAssigned ==
    \A k \in Keys :
        (/\ lpc = "loop"
         /\ pos > 1
         /\ pos - 1 <= Len(file.lines)
         /\ HasColon(file.lines[pos - 1])
         /\ Strip(SplitFirstColon(file.lines[pos - 1])[1]) = <<k>>) =>
            cfg[k] = Strip(SplitFirstColon(file.lines[pos - 1])[2])

\* A line whose key (the trimmed text before its first colon) names field k.
NamesField(line, k) ==
    HasColon(line) /\ Strip(SplitFirstColon(line)[1]) = <<k>>

ClaimDefault(k) ==
    CASE k = "backend_ip" -> <<"192.168.1.1">>
      [] k = "port" -> <<"3107">>
      [] k = "X-Auth-Token" -> <<"default">>

\* C7: a field keeps its default value unless a line of the file read so far
\* names that field: an absent file gives the three defaults, and lines
\* without a colon or with an unrecognized key change nothing.
C7_DefaultsKept ==
    /\ \A k \in Keys :
          cfg[k] # ClaimDefault(k) =>
              /\ file.exists
              /\ \E i \in 1..Len(file.lines) : i < pos /\ NamesField(file.lines[i], k)
    /\ \A n \in 1..Len(results) : \A k \in Keys :
          results[n][k] # ClaimDefault(k) =>
              /\ file.exists
              /\ \E i \in 1..Len(file.lines) : NamesField(file.lines[i], k)

C7_Witness ==
    /\ lpc = "ret"
    /\ ~raised
    /\ file.lines = << <<"backend_ip", ":", " ", "10.0.0.5", "\n">>,
                       <<"timeout", ":", " ", "30", "\n">> >>
    /\ cfg["backend_ip"] = <<"10.0.0.5">>
    /\ cfg["port"] = <<"3107">>
    /\ cfg["X-Auth-Token"] = <<"default">>

\* C8: successive calls of load_server_config on the same unchanged file (or
\* the same absent file) return the same three values.
C8_Idempotent ==
    \A i, j \in 1..Len(results) : results[i] = results[j]

C8_Witness ==
    /\ Len(results) >= 2
    /\ file.exists
    /\ results[1]["port"] = <<"8080">>
    /\ results[2]["port"] = <<"8080">>

\* C9: a request causes at most one call of the adapter: one when validation
\* passes, none when it fails, and no second call after a provider failure.
C9_AtMostOneCall ==
    \A r \in Reqs :
        /\ calls[r] <= 1
        /\ pc[r] = "done" => calls[r] = (IF SomeFieldFalsy(body[r]) THEN 0 ELSE 1)
        /\ result[r].kind = "raise" => (calls[r] = 1 /\ pc[r] = "done")

C9_Witness ==
    \E r, q \in Reqs :
        /\ result[r].kind = "raise"
        /\ calls[r] = 1
        /\ pc[q] = "done"
        /\ calls[q] = 0

\* C10: once the server serves, the module-level config stays the value
\* load_server_config returned at startup, whatever requests are in flight,
\* and a request's response is a function of its own body and its own
\* adapter result.
C10_ConfigReadOnly ==
    lpc = "serving" =>
        /\ config = cfg
        /\ \A r \in Reqs :
              pc[r] = "done" =>
                  response[r] = (IF AllTruthy(body[r])
                                 THEN HandlerOutcome(result[r])
                                 ELSE ErrorEnvelope)
        /\ \A r \in Reqs :
              pc[r] \in {"call", "wait"} => AllTruthy(body[r])

C10_Witness ==
    /\ lpc = "serving"
    /\ config["port"] = <<"8080">>
    /\ pc[1] = "wait"
    /\ pc[2] = "done"
    /\ result[2].kind = "raise"
    /\ body[1] # body[2]

====
